---- MODULE Spec2Model ----
(***************************************************************************)
(* Model of modern-beep (src/src/main.rs): the async main function, the    *)
(* notification prelude, the beep loop, generate_beep_tone / run_beep and  *)
(* the cpal output callback.                                               *)
(***************************************************************************)
EXTENDS Integers, Sequences, FiniteSets, TLC

(* ------------------------------------------------------------------ *)
(* Bounds of the model                                                *)
(* ------------------------------------------------------------------ *)
MaxRepeats == 2
MaxBuf == 2
MaxFrames == 3
MaxDurationMs == 3000

(* ------------------------------------------------------------------ *)
(* Single-precision arithmetic of run_beep (f32, 24-bit significand)  *)
(* ------------------------------------------------------------------ *)
F32Bits == 24

Pow2(n) == 2 ^ n

RECURSIVE BitLen(_)
BitLen(n) == IF n = 0 THEN 0 ELSE 1 + BitLen(n \div 2)

\* round-to-nearest, ties-to-even of q + (a remainder that is below, equal
\* to or above one half of the last kept place)
RoundEven(q, above, tie) ==
    IF above \/ (tie /\ q % 2 = 1) THEN q + 1 ELSE q

\* `x as f32` for a non-negative integer x
F32FromNat(n) ==
    IF n < Pow2(F32Bits) THEN n
    ELSE LET s == BitLen(n) - F32Bits
             q == n \div Pow2(s)
             r == n % Pow2(s)
             half == Pow2(s - 1)
         IN  RoundEven(q, r > half, r = half) * Pow2(s)

\* the significand of d / 1000.0: n = floor(d * 2^k / 1000), r the remainder
RECURSIVE DivNorm(_, _, _)
DivNorm(n, r, k) ==
    IF n >= Pow2(F32Bits - 1)
    THEN [m |-> RoundEven(n, 2 * r > 1000, 2 * r = 1000), k |-> k]
    ELSE DivNorm(2 * n + (IF 2 * r >= 1000 THEN 1 ELSE 0), (2 * r) % 1000, k + 1)

\* `d / 1000.0` in f32, as the pair m, k standing for m * 2^-k
F32Div1000(d) ==
    IF d = 0 THEN [m |-> 0, k |-> 0]
    ELSE DivNorm(d \div 1000, d % 1000, 0)

\* `sr * q` in f32 (sr an f32 integer, q = m * 2^-k), as mant * 2^e; the
\* exact product is held in two limbs H * 4096 + L
F32Mul(sr, q) ==
    IF sr = 0 \/ q.m = 0 THEN [mant |-> 0, e |-> 0]
    ELSE LET A == sr * (q.m \div 4096)
             B == sr * (q.m % 4096)
             H == A + (B \div 4096)
             L == B % 4096
             s == BitLen(H) - 12
         IN  IF s = 0
             THEN [mant |-> H * 4096 + L, e |-> 0 - q.k]
             ELSE IF s <= 12
             THEN LET keep == H * Pow2(12 - s) + (L \div Pow2(s))
                      rem == L % Pow2(s)
                      half == Pow2(s - 1)
                  IN  [mant |-> RoundEven(keep, rem > half, rem = half),
                       e |-> s - q.k]
             ELSE LET keep == H \div Pow2(s - 12)
                      remH == H % Pow2(s - 12)
                      halfH == Pow2(s - 13)
                  IN  [mant |-> RoundEven(keep,
                                   remH > halfH \/ (remH = halfH /\ L > 0),
                                   remH = halfH /\ L = 0),
                       e |-> s - q.k]

\* F32ToUsize with rounding to nearest in place of the truncation
F32ToUsize_Round(x) ==
    IF x.e >= 0 THEN x.mant * Pow2(x.e)
    ELSE IF 0 - x.e > F32Bits + 1 THEN 0
    ELSE (x.mant + Pow2(0 - x.e - 1)) \div Pow2(0 - x.e)

\* `x as usize` for a non-negative f32 x = mant * 2^e: truncation
F32ToUsize(x) ==
    IF x.e >= 0 THEN x.mant * Pow2(x.e)
    ELSE IF 0 - x.e > F32Bits THEN 0
    ELSE x.mant \div Pow2(0 - x.e)

\* let total_samples = (sample_rate * (duration_ms as f32 / 1000.0)) as usize;
total_samples_of(rate, duration_ms) ==
    F32ToUsize(F32Mul(F32FromNat(rate), F32Div1000(F32FromNat(duration_ms))))

(* ------------------------------------------------------------------ *)
(* Inputs                                                             *)
(* ------------------------------------------------------------------ *)
\* negotiated sample rates of the budget computation
SampleRatesHz == {8000, 11025, 22050, 44100, 48000}
\* sample rates, channel counts and durations of the playback model
SampleRates == {1, 2}
Channels == {1, 2}
Durations == {0, 500, 1000}
\* cpal::SampleFormat values a device may report; I32 stands for the
\* formats run_beep is not instantiated for
NativeFormats == {"F32", "I16", "U16", "I32"}
SupportedFormats == {"F32", "I16", "U16"}

\* line 307 for the rates and durations of the playback model, computed once
total_samples_table ==
    [r \in SampleRates |-> [d \in Durations |-> total_samples_of(r, d)]]

\* T::EQUILIBRIUM: the zero point of the sample type
EQUILIBRIUM(T) == <<"eq", IF T = "U16" THEN 32768 ELSE 0>>

\* T::from_sample(sin(sample_clock * frequency * 2 PI / sample_rate) * 0.3):
\* the sine is left uninterpreted, a tone sample is named by its phase
from_sample(T, clock) == <<"tone", clock>>

VARIABLES
    pc,             \* position of the main task
    sample_config,  \* args.sample_config
    no_sound,       \* args.no_sound
    repeats,        \* args.repeats
    length,         \* args.length (duration_ms)
    i,              \* loop variable of `for i in 0..args.repeats`
    sample_rate,    \* run_beep: config.sample_rate
    channels,       \* run_beep: config.channels
    format,         \* config.sample_format(), the T of run_beep::<T>
    total_samples,  \* run_beep local captured by the callback
    sample_clock,   \* run_beep local captured by the callback
    samples_played, \* run_beep local captured by the callback
    stream,         \* "none", "built" or "playing": the cpal stream of run_beep
    out,            \* frames the callback wrote in the current stream's life
    bufs,           \* frames per callback invocation in the current stream's life
    episodes,       \* the Result of every returned generate_beep_tone call
    calls,          \* number of generate_beep_tone calls
    bells,          \* number of "\x07" printed
    errors,         \* number of "Error generating sound" reports
    suspensions,    \* number of tokio sleeps of the loop
    result,         \* what main returned: "none", "Ok" or "Err"
    open_streams,   \* output streams open on the device (cpal and rodio)
    task,           \* main future: "running" or "awaiting" (suspended at an .await)
    blocked,        \* threads blocked in the operating system
    inflight        \* futures the main task awaits

vars == <<pc, sample_config, no_sound, repeats, length, i, sample_rate,
          channels, format, total_samples, sample_clock, samples_played,
          stream, out, bufs, episodes, calls, bells, errors, suspensions,
          result, open_streams, task, blocked, inflight>>

args == <<sample_config, no_sound, repeats, length>>
closure == <<total_samples, sample_clock, samples_played, out, bufs>>
negotiated == <<sample_rate, channels, format>>
counters == <<calls, bells, errors, suspensions>>
threads == <<task, blocked, inflight>>

\* the thread that runs block_on(main future) under #[tokio::main]
MainThread == "main"

Init ==
    /\ pc = "start"
    /\ sample_config \in BOOLEAN
    /\ no_sound \in BOOLEAN
    /\ repeats \in 0..MaxRepeats
    /\ length \in Durations
    /\ i = 0
    /\ sample_rate = 0 /\ channels = 0 /\ format = "none"
    /\ total_samples = 0 /\ sample_clock = 0 /\ samples_played = 0
    /\ stream = "none"
    /\ out = <<>> /\ bufs = <<>>
    /\ episodes = <<>>
    /\ calls = 0 /\ bells = 0 /\ errors = 0 /\ suspensions = 0
    /\ result = "none"
    /\ open_streams = 0
    /\ task = "running" /\ blocked = {} /\ inflight = {}

(* ------------------------------------------------------------------ *)
(* main: prelude                                                      *)
(* ------------------------------------------------------------------ *)
\* if args.sample_config { print_sample_config(); return Ok(()) }
SampleConfig ==
    /\ pc = "start" /\ sample_config
    /\ pc' = "done" /\ result' = "Ok"
    /\ UNCHANGED <<args, i, negotiated, closure, stream, episodes, counters,
                   open_streams, threads>>

\* let config = load_config(&config_path)?;
LoadConfig ==
    /\ pc = "start" /\ ~sample_config
    /\ \E outcome \in {"Err", "None", "Some"} :
          /\ pc' = CASE outcome = "Err" -> "done"
                     [] outcome = "None" -> "beep"
                     [] outcome = "Some" -> "pushover"
          /\ result' = IF outcome = "Err" THEN "Err" ELSE result
    /\ UNCHANGED <<args, i, negotiated, closure, stream, episodes, counters,
                   open_streams, threads>>

\* an .await of the main task on a request: the task is suspended
Await(what, next) ==
    /\ task' = "awaiting" /\ inflight' = inflight \cup {what}
    /\ pc' = next
    /\ UNCHANGED blocked

\* the awaited future completes (Ok or Err, both are only reported)
Resume(what, next) ==
    /\ task = "awaiting" /\ what \in inflight
    /\ task' = "running" /\ inflight' = inflight \ {what}
    /\ pc' = next
    /\ UNCHANGED blocked

\* if let Some(pushover_config) = &config.pushover { send(...).await }
Pushover ==
    /\ pc = "pushover"
    /\ \/ Await("pushover", "pushover_wait")
       \/ pc' = "webhook" /\ UNCHANGED threads
    /\ UNCHANGED <<args, i, negotiated, closure, stream, episodes, counters,
                   result, open_streams>>

PushoverDone ==
    /\ pc = "pushover_wait"
    /\ Resume("pushover", "webhook")
    /\ UNCHANGED <<args, i, negotiated, closure, stream, episodes, counters,
                   result, open_streams>>

\* if let Some(webhook_config) = &config.webhook { send(...).await }
Webhook ==
    /\ pc = "webhook"
    /\ \/ Await("webhook", "webhook_wait")
       \/ pc' = "sound" /\ UNCHANGED threads
    /\ UNCHANGED <<args, i, negotiated, closure, stream, episodes, counters,
                   result, open_streams>>

WebhookDone ==
    /\ pc = "webhook_wait"
    /\ Resume("webhook", "sound")
    /\ UNCHANGED <<args, i, negotiated, closure, stream, episodes, counters,
                   result, open_streams>>

\* if let Some(sound_config) = &config.sound { url / file / neither }
Sound ==
    /\ pc = "sound"
    /\ \/ Await("sound_url", "sound_url_wait")
       \/ pc' = "sound_open" /\ UNCHANGED threads
       \/ pc' = "beep" /\ UNCHANGED threads
    /\ UNCHANGED <<args, i, negotiated, closure, stream, episodes, counters,
                   result, open_streams>>

\* play_sound_url: the download completes; an error returns to main
SoundUrlDone ==
    /\ pc = "sound_url_wait"
    /\ \/ Resume("sound_url", "sound_open")
       \/ Resume("sound_url", "beep")
    /\ UNCHANGED <<args, i, negotiated, closure, stream, episodes, counters,
                   result, open_streams>>

\* OutputStream::try_default()?, Sink, Decoder, sink.sleep_until_end()
SoundOpen ==
    /\ pc = "sound_open"
    /\ \/ /\ pc' = "beep"
          /\ UNCHANGED <<open_streams, threads>>
       \/ /\ pc' = "sound_playing"
          /\ open_streams' = open_streams + 1
          /\ blocked' = blocked \cup {MainThread}
          /\ UNCHANGED <<task, inflight>>
    /\ UNCHANGED <<args, i, negotiated, closure, stream, episodes, counters,
                   result>>

\* the sink ends, play_sound_* returns and drops its OutputStream
SoundEnd ==
    /\ pc = "sound_playing"
    /\ pc' = "beep"
    /\ open_streams' = open_streams - 1
    /\ blocked' = blocked \ {MainThread}
    /\ UNCHANGED <<task, inflight>>
    /\ UNCHANGED <<args, i, negotiated, closure, stream, episodes, counters,
                   result>>

(* ------------------------------------------------------------------ *)
(* main: the beep loop                                                *)
(* ------------------------------------------------------------------ *)
\* LoopHead that sleeps before the first iteration too
LoopHead_DelayFirst ==
    /\ pc = "beep"
    /\ IF no_sound \/ i >= repeats
       THEN /\ pc' = "done" /\ result' = "Ok"
            /\ UNCHANGED <<suspensions, threads>>
       ELSE /\ Await("delay", "delay")
            /\ suspensions' = suspensions + 1
            /\ UNCHANGED result
    /\ UNCHANGED <<args, i, negotiated, closure, stream, episodes, calls,
                   bells, errors, open_streams>>

\* if !args.no_sound { for i in 0..args.repeats { ... } } Ok(())
LoopHead ==
    /\ pc = "beep"
    /\ IF no_sound \/ i >= repeats
       THEN /\ pc' = "done" /\ result' = "Ok"
            /\ UNCHANGED <<suspensions, threads>>
       ELSE IF i > 0
       THEN \* sleep(Duration::from_millis(args.delay)).await
            /\ Await("delay", "delay")
            /\ suspensions' = suspensions + 1
            /\ UNCHANGED result
       ELSE /\ pc' = "call"
            /\ UNCHANGED <<suspensions, result, threads>>
    /\ UNCHANGED <<args, i, negotiated, closure, stream, episodes, calls,
                   bells, errors, open_streams>>

\* the timer of the tokio sleep fires
DelayDone ==
    /\ pc = "delay"
    /\ Resume("delay", "call")
    /\ UNCHANGED <<args, i, negotiated, closure, stream, episodes, counters,
                   result, open_streams>>

\* generate_beep_tone returns Err(err) to main
Fail(err) ==
    /\ pc' = "returned"
    /\ episodes' = Append(episodes, err)

\* generate_beep_tone: host.default_output_device().ok_or_else(...)?
DefaultOutputDevice ==
    /\ pc = "call"
    /\ calls' = calls + 1
    /\ \/ Fail("NoDevice")
       \/ pc' = "config" /\ UNCHANGED episodes
    /\ UNCHANGED <<args, i, negotiated, closure, stream, bells, errors,
                   suspensions, result, open_streams, threads>>

\* let config = device.default_output_config()?;
DefaultOutputConfig ==
    /\ pc = "config"
    /\ \/ /\ Fail("ConfigError")
          /\ UNCHANGED negotiated
       \/ /\ pc' = "match"
          /\ sample_rate' \in SampleRates
          /\ channels' \in Channels
          /\ format' \in NativeFormats
          /\ UNCHANGED episodes
    /\ UNCHANGED <<args, i, closure, stream, counters, result, open_streams,
                   threads>>

\* match config.sample_format() { F32 | I16 | U16 => run_beep::<T>, _ => Err }
MatchFormat ==
    /\ pc = "match"
    /\ IF format \in SupportedFormats
       THEN pc' = "run_beep" /\ UNCHANGED episodes
       ELSE Fail("UnsupportedFormat")
    /\ UNCHANGED <<args, i, negotiated, closure, stream, counters, result,
                   open_streams, threads>>

\* BuildOutputStream whose closure keeps the clock and the counter of the
\* previous stream
BuildOutputStream_Stale ==
    /\ pc = "run_beep"
    /\ total_samples' = total_samples_table[sample_rate][length]
    /\ out' = <<>> /\ bufs' = <<>>
    /\ UNCHANGED <<sample_clock, samples_played>>
    /\ \/ /\ pc' = "returned"
          /\ episodes' = Append(episodes, "BuildFailed")
          /\ UNCHANGED <<stream, open_streams>>
       \/ /\ pc' = "play"
          /\ stream' = "built"
          /\ open_streams' = open_streams + 1
          /\ UNCHANGED episodes
    /\ UNCHANGED <<args, i, negotiated, counters, result, threads>>

\* run_beep: the locals the closure captures, then build_output_stream(...)?
BuildOutputStream ==
    /\ pc = "run_beep"
    /\ sample_clock' = 0
    /\ total_samples' = total_samples_table[sample_rate][length]
    /\ samples_played' = 0
    /\ out' = <<>> /\ bufs' = <<>>
    /\ \/ /\ pc' = "returned"
          /\ episodes' = Append(episodes, "BuildFailed")
          /\ UNCHANGED <<stream, open_streams>>
       \/ /\ pc' = "play"
          /\ stream' = "built"
          /\ open_streams' = open_streams + 1
          /\ UNCHANGED episodes
    /\ UNCHANGED <<args, i, negotiated, counters, result, threads>>

\* Play whose sleep runs on a thread of the blocking pool
Play_SpawnBlocking ==
    /\ pc = "play"
    /\ \/ /\ Fail("PlayFailed")
          /\ stream' = "none"
          /\ open_streams' = open_streams - 1
          /\ UNCHANGED blocked
       \/ /\ pc' = "wait"
          /\ stream' = "playing"
          /\ blocked' = blocked \cup {"worker"}
          /\ UNCHANGED <<episodes, open_streams>>
    /\ UNCHANGED <<args, i, negotiated, closure, counters, result, task,
                   inflight>>

\* stream.play()?; std::thread::sleep(Duration::from_millis(duration_ms + 50))
\* the sleep is called in the poll of the main future, on the polling thread
Play ==
    /\ pc = "play"
    /\ \/ /\ Fail("PlayFailed")
          /\ stream' = "none"
          /\ open_streams' = open_streams - 1
          /\ UNCHANGED blocked
       \/ /\ pc' = "wait"
          /\ stream' = "playing"
          /\ blocked' = blocked \cup {MainThread}
          /\ UNCHANGED <<episodes, open_streams>>
    /\ UNCHANGED <<args, i, negotiated, closure, counters, result, task,
                   inflight>>

\* WaitEnd that returns without dropping the stream
WaitEnd_Leak ==
    /\ pc = "wait"
    /\ pc' = "returned"
    /\ episodes' = Append(episodes, "none")
    /\ blocked' = blocked \ {MainThread}
    /\ UNCHANGED <<args, i, negotiated, closure, counters, result, task,
                   inflight, stream, open_streams>>

\* the sleep ends, run_beep returns Ok(()) and drops the stream
WaitEnd ==
    /\ pc = "wait"
    /\ pc' = "returned"
    /\ episodes' = Append(episodes, "none")
    /\ stream' = "none"
    /\ open_streams' = open_streams - 1
    /\ blocked' = blocked \ {MainThread}
    /\ UNCHANGED <<args, i, negotiated, closure, counters, result, task,
                   inflight>>

\* HandleResult that leaves the loop at the first failed episode
HandleResult_Break ==
    /\ pc = "returned"
    /\ IF episodes[Len(episodes)] # "none"
       THEN errors' = errors + 1 /\ bells' = bells + 1 /\ i' = repeats
       ELSE UNCHANGED <<errors, bells>> /\ i' = i + 1
    /\ pc' = "beep"
    /\ UNCHANGED <<args, negotiated, closure, stream, episodes, calls,
                   suspensions, result, open_streams, threads>>

\* HandleResult that propagates the error with `?`
HandleResult_Propagate ==
    /\ pc = "returned"
    /\ IF episodes[Len(episodes)] # "none"
       THEN pc' = "done" /\ result' = "Err" /\ UNCHANGED i
       ELSE pc' = "beep" /\ i' = i + 1 /\ UNCHANGED result
    /\ UNCHANGED <<args, negotiated, closure, stream, episodes, counters,
                   open_streams, threads>>

\* if let Err(e) = generate_beep_tone(..) { eprintln!(..); print!("\x07") }
\* and the loop goes to its next iteration
HandleResult ==
    /\ pc = "returned"
    /\ IF episodes[Len(episodes)] # "none"
       THEN errors' = errors + 1 /\ bells' = bells + 1
       ELSE UNCHANGED <<errors, bells>>
    /\ i' = i + 1
    /\ pc' = "beep"
    /\ UNCHANGED <<args, negotiated, closure, stream, episodes, calls,
                   suspensions, result, open_streams, threads>>

(* ------------------------------------------------------------------ *)
(* The output callback of run_beep, called by the audio thread        *)
(* ------------------------------------------------------------------ *)
\* Frame that tests samples_played > total_samples
Frame_OffByOne(st) ==
    IF st.played > total_samples
    THEN [st EXCEPT !.out = Append(@, [c \in 1..channels |-> EQUILIBRIUM(format)])]
    ELSE [out |-> Append(st.out,
                         [c \in 1..channels |-> from_sample(format, st.clock)]),
          clock |-> F32FromNat(st.clock + 1) % F32FromNat(sample_rate),
          played |-> st.played + 1]

\* Frame that starts the tone again once the budget is spent
Frame_Repeat(st) ==
    IF st.played >= total_samples
    THEN [out |-> Append(st.out, [c \in 1..channels |-> EQUILIBRIUM(format)]),
          clock |-> 0,
          played |-> 0]
    ELSE [out |-> Append(st.out,
                         [c \in 1..channels |-> from_sample(format, st.clock)]),
          clock |-> F32FromNat(st.clock + 1) % F32FromNat(sample_rate),
          played |-> st.played + 1]

\* Frame that does not wrap the clock
Frame_NoWrap(st) ==
    IF st.played >= total_samples
    THEN [st EXCEPT !.out = Append(@, [c \in 1..channels |-> EQUILIBRIUM(format)])]
    ELSE [out |-> Append(st.out,
                         [c \in 1..channels |-> from_sample(format, st.clock)]),
          clock |-> F32FromNat(st.clock + 1),
          played |-> st.played + 1]

\* one iteration of `for frame in data.chunks_mut(channels)`
Frame(st) ==
    IF st.played >= total_samples
    THEN [st EXCEPT !.out = Append(@, [c \in 1..channels |-> EQUILIBRIUM(format)])]
    ELSE [out |-> Append(st.out,
                         [c \in 1..channels |-> from_sample(format, st.clock)]),
          clock |-> F32FromNat(st.clock + 1) % F32FromNat(sample_rate),
          played |-> st.played + 1]

RECURSIVE Frames(_, _)
Frames(n, st) == IF n = 0 THEN st ELSE Frames(n - 1, Frame(st))

\* move |data: &mut [T], _| { ... } with data.len() = n * channels
Callback(n) ==
    /\ stream = "playing"
    /\ Len(out) + n <= MaxFrames
    /\ LET st == Frames(n, [out |-> out, clock |-> sample_clock,
                            played |-> samples_played])
       IN  /\ out' = st.out
           /\ sample_clock' = st.clock
           /\ samples_played' = st.played
    /\ bufs' = Append(bufs, n)
    /\ UNCHANGED <<pc, args, i, negotiated, total_samples, stream, episodes,
                   counters, result, open_streams, threads>>

AudioThread == \E n \in 1..MaxBuf : Callback(n)

EpisodeStep ==
    \/ DefaultOutputDevice \/ DefaultOutputConfig \/ MatchFormat
    \/ BuildOutputStream \/ Play \/ WaitEnd

Next ==
    \/ SampleConfig \/ LoadConfig
    \/ Pushover \/ PushoverDone \/ Webhook \/ WebhookDone
    \/ Sound \/ SoundUrlDone \/ SoundOpen \/ SoundEnd
    \/ LoopHead \/ DelayDone
    \/ DefaultOutputDevice \/ DefaultOutputConfig \/ MatchFormat
    \/ BuildOutputStream \/ Play \/ WaitEnd
    \/ HandleResult
    \/ AudioThread

Spec == Init /\ [][Next]_vars

\* the operating system ends a sleep and answers a device request
FairSpec == Spec /\ WF_vars(EpisodeStep)

TypeOK ==
    /\ pc \in {"start", "pushover", "pushover_wait", "webhook", "webhook_wait",
               "sound", "sound_url_wait", "sound_open", "sound_playing", "beep",
               "delay", "call", "config", "match", "run_beep", "play", "wait",
               "returned", "done"}
    /\ i \in 0..MaxRepeats
    /\ stream \in {"none", "built", "playing"}
    /\ samples_played \in 0..MaxFrames
    /\ Len(out) <= MaxFrames
    /\ task \in {"running", "awaiting"}
    /\ blocked \subseteq {MainThread}

(* ------------------------------------------------------------------ *)
(* The frame budget as a function of its inputs                       *)
(* ------------------------------------------------------------------ *)
InitBudget ==
    /\ pc = "budget"
    /\ sample_config = FALSE /\ no_sound = FALSE /\ repeats = 1
    /\ length \in 0..MaxDurationMs
    /\ i = 0
    /\ sample_rate \in SampleRatesHz /\ channels = 1 /\ format = "F32"
    /\ total_samples = 0 /\ sample_clock = 0 /\ samples_played = 0
    /\ stream = "none"
    /\ out = <<>> /\ bufs = <<>>
    /\ episodes = <<>>
    /\ calls = 1 /\ bells = 0 /\ errors = 0 /\ suspensions = 0
    /\ result = "none"
    /\ open_streams = 0
    /\ task = "running" /\ blocked = {} /\ inflight = {}

\* run_beep, line 307 alone
ComputeBudget ==
    /\ pc = "budget"
    /\ total_samples' = total_samples_of(sample_rate, length)
    /\ pc' = "budget_done"
    /\ UNCHANGED <<args, i, negotiated, sample_clock, samples_played, out, bufs,
                   stream, episodes, counters, result, open_streams, threads>>

NextBudget == ComputeBudget

SpecBudget == InitBudget /\ [][NextBudget]_vars

(* ------------------------------------------------------------------ *)
(* Definitions the properties use                                     *)
(* ------------------------------------------------------------------ *)
InEpisode == pc \in {"call", "config", "match", "run_beep", "play", "wait", "returned"}

\* the loop of main was entered (the run is past the prelude, sound enabled)
Orchestrated == ~sample_config /\ ~no_sound /\ result # "Err"

Failed == {k \in 1..Len(episodes) : episodes[k] # "none"}

ToneFrame(f) == \A c \in DOMAIN f : f[c][1] = "tone"
SilentFrame(f, T) == \A c \in DOMAIN f : f[c] = EQUILIBRIUM(T)

RECURSIVE Sum(_)
Sum(q) == IF q = <<>> THEN 0 ELSE Head(q) + Sum(Tail(q))

\* the amplitude a sample stands for, whatever the sample type
Amplitude(sample) == IF sample[1] = "tone" THEN sample ELSE <<"eq", 0>>

\* what a generator that starts from frames_emitted = 0 and phase = 0 writes
\* into n frames
FreshAmplitudes(rate, budget, n) ==
    [k \in 1..n |-> IF k <= budget THEN <<"tone", (k - 1) % rate>> ELSE <<"eq", 0>>]

\* the states of the episode's life cycle
Phase ==
    CASE pc = "call" -> "Idle"
      [] pc \in {"config", "match", "run_beep", "play"} -> "Negotiating"
      [] pc = "wait" /\ samples_played < total_samples -> "Streaming"
      [] pc = "wait" /\ samples_played >= total_samples -> "Draining"
      [] pc = "returned" -> "Closed"
      [] OTHER -> "Outside"

Rank(ph) ==
    CASE ph = "Idle" -> 0
      [] ph = "Negotiating" -> 1
      [] ph = "Streaming" -> 2
      [] ph = "Draining" -> 3
      [] ph = "Closed" -> 4
      [] OTHER -> 0

(* ------------------------------------------------------------------ *)
(* Properties                                                         *)
(* ------------------------------------------------------------------ *)

\* C1: in a stream's life the first total_samples frames written are tone
\* frames on every channel and every later frame is the equilibrium value on
\* every channel, whatever the buffer sizes: the number of tone frames is
\* min(frames written, budget), none follows a silent frame, and a budget of 0
\* gives silence only.
C1_ToneThenSilence ==
    stream = "playing" =>
        /\ samples_played = (IF Len(out) < total_samples THEN Len(out) ELSE total_samples)
        /\ Len(out) = Sum(bufs)
        /\ \A k \in 1..Len(out) :
              /\ Len(out[k]) = channels
              /\ k <= total_samples => ToneFrame(out[k])
              /\ k > total_samples => SilentFrame(out[k], format)

\* a buffer straddled the budget boundary: tone frame(s), then silence
C1_Witness ==
    /\ stream = "playing" /\ total_samples = 1 /\ bufs = <<2>>
    /\ channels = 2 /\ format = "U16"
    /\ ToneFrame(out[1]) /\ SilentFrame(out[2], format)

\* C2 (as the spec states it): the budget is the nearest integer to
\* sample_rate * duration_ms / 1000.
C2_BudgetIsRounded ==
    pc = "budget_done" =>
        LET x == sample_rate * length
        IN  /\ 1000 * total_samples - x <= 500
            /\ x - 1000 * total_samples <= 500

\* C2 (amended): the budget is the f32 product truncated toward zero: it is
\* floor(sample_rate * duration_ms / 1000) when that quotient is not an
\* integer, and the quotient or one less when it is; 44100 Hz and 7 ms give
\* 308, 48000 Hz and 9 ms give 431, 44100 Hz and 200 ms give 8820.
C2_BudgetIsTruncated ==
    pc = "budget_done" =>
        LET x == sample_rate * length
            floor == x \div 1000
        IN  /\ x % 1000 # 0 => total_samples = floor
            /\ x % 1000 = 0 => total_samples \in {floor - 1, floor}
            /\ (sample_rate = 44100 /\ length = 7) => total_samples = 308
            /\ (sample_rate = 48000 /\ length = 9) => total_samples = 431
            /\ (sample_rate = 44100 /\ length = 200) => total_samples = 8820

\* a budget below the rounded quotient was computed
C2_Witness ==
    /\ pc = "budget_done" /\ sample_rate = 44100 /\ length = 7
    /\ total_samples = 308

\* C3: the loop calls generate_beep_tone once per iteration, one call after
\* the other, whatever the earlier calls returned: a run that went through the
\* loop ends with exactly repeats calls, and with repeats = 0 with none.
C3_ExactlyNEpisodes ==
    /\ calls = Len(episodes) + (IF pc \in {"config", "match", "run_beep", "play", "wait"}
                                THEN 1 ELSE 0)
    /\ Orchestrated => Len(episodes) = i + (IF pc = "returned" THEN 1 ELSE 0)
    /\ (pc = "done" /\ Orchestrated) => (calls = repeats /\ result = "Ok")
    /\ ~Orchestrated => calls = 0

\* all repetitions ran although the first one failed
C3_Witness ==
    /\ pc = "done" /\ repeats = MaxRepeats /\ calls = MaxRepeats
    /\ episodes[1] = "NoDevice" /\ episodes[MaxRepeats] = "none"

\* C4: at most one output stream is open; none is open between episodes,
\* during the inter-repeat suspension or while the next episode negotiates.
C4_OneStream ==
    /\ open_streams <= 1
    /\ (stream # "none") <=> (pc \in {"play", "wait"})
    /\ (stream # "none") => open_streams = 1
    /\ pc \in {"beep", "delay", "call", "config", "match", "run_beep",
               "returned", "done"} => open_streams = 0

\* a second episode negotiates after a first one that streamed
C4_Witness ==
    /\ pc = "run_beep" /\ i = 1 /\ episodes = <<"none">> /\ open_streams = 0

\* C5 (as the spec states it): the blocking wait of an episode leaves the
\* thread that polls the main task free, and the suspension blocks no thread.
C5_WaitOffScheduler ==
    /\ pc = "wait" => MainThread \notin blocked
    /\ pc = "delay" => (task = "awaiting" /\ MainThread \notin blocked)

\* C5 (amended): every notification future is awaited to completion before
\* the loop starts, the blocking wait of an episode is a sleep of the thread
\* that polls the main task, and the inter-repeat suspension is an .await that
\* blocks no thread.
C5_WaitOnMainThread ==
    /\ (InEpisode \/ pc \in {"beep", "delay"}) => inflight \subseteq {"delay"}
    /\ pc = "wait" => (blocked = {MainThread} /\ task = "running" /\ inflight = {})
    /\ pc = "delay" => (task = "awaiting" /\ blocked = {} /\ inflight = {"delay"})

\* an episode is in its blocking wait
C5_Witness == pc = "wait" /\ blocked = {MainThread} /\ i = 1

\* C6: every failed episode is reported once and rings the bell once, and
\* the run ends with Ok(()) also when every episode failed.
C6_BellPerFailure ==
    LET handled == Cardinality(Failed) -
                   (IF pc = "returned" /\ Len(episodes) \in Failed THEN 1 ELSE 0)
    IN  /\ bells = handled
        /\ errors = handled
        /\ (pc = "done" /\ episodes # <<>>) => result = "Ok"

\* every episode failed, each in its own way, and the run completed
C6_Witness ==
    /\ pc = "done" /\ result = "Ok" /\ repeats = MaxRepeats
    /\ bells = MaxRepeats /\ episodes[1] = "UnsupportedFormat"
    /\ episodes[2] = "PlayFailed"

\* C7: within an episode the phases are visited in the order Idle,
\* Negotiating, Streaming, Draining, Closed (Streaming is not re-entered after
\* Draining), in Closed the stream is gone and the callback cannot run, and
\* every episode reaches Closed.
C7_Lifecycle ==
    /\ [][(InEpisode /\ InEpisode' /\ i' = i) => Rank(Phase)' >= Rank(Phase)]_vars
    /\ [](Phase = "Closed" =>
            (stream = "none" /\ open_streams = 0 /\ ~ENABLED AudioThread))
    /\ [](InEpisode => <>(Phase = "Closed"))

\* an episode closed after it streamed its budget and drained
C7_Witness ==
    /\ Phase = "Closed" /\ episodes[Len(episodes)] = "none"
    /\ total_samples >= 1 /\ Len(out) > total_samples

\* C8: while the stream lives, sample_clock is in [0, sample_rate) and equals
\* the number of tone frames modulo sample_rate; silent frames do not move it.
C8_PhaseBounded ==
    stream \in {"built", "playing"} =>
        /\ 0 <= sample_clock /\ sample_clock < sample_rate
        /\ sample_clock = samples_played % sample_rate

\* the phase wrapped to 0 and a silent frame followed
C8_Witness ==
    /\ stream = "playing" /\ sample_rate = 2 /\ samples_played = 2
    /\ sample_clock = 0 /\ Len(out) = 3

\* C9: every stream starts from samples_played = 0 and sample_clock = 0
\* whatever the earlier episodes left, its budget depends on the sample rate
\* and the duration alone, and the amplitudes it writes are those of a fresh
\* generator fed the same buffers.
C9_FreshEpisode ==
    /\ stream = "built" =>
          /\ samples_played = 0 /\ sample_clock = 0
          /\ out = <<>> /\ bufs = <<>>
    /\ stream \in {"built", "playing"} =>
          /\ total_samples = total_samples_of(sample_rate, length)
          /\ Len(out) = Sum(bufs)
          /\ \A k \in 1..Len(out) :
                Amplitude(out[k][1]) =
                    FreshAmplitudes(sample_rate,
                                    total_samples_of(sample_rate, length),
                                    Sum(bufs))[k]

\* a later episode streams after an earlier one that played and one that failed
C9_Witness ==
    /\ stream = "playing" /\ Len(episodes) >= 1 /\ episodes[1] = "none"
    /\ Len(out) >= 2 /\ samples_played >= 1

\* C10: the loop suspends once before every episode but the first, after the
\* previous episode returned and before the next call: a run of repeats >= 1
\* episodes has repeats - 1 suspensions.
C10_SuspensionsBetween ==
    /\ pc = "delay" =>
          (i > 0 /\ Len(episodes) = i /\ calls = i /\ stream = "none"
           /\ suspensions = i)
    /\ pc \in {"call", "config", "match", "run_beep", "play", "wait", "returned"} =>
          suspensions = i
    /\ (pc = "done" /\ Orchestrated) =>
          suspensions = (IF repeats = 0 THEN 0 ELSE repeats - 1)

\* the run ended after MaxRepeats episodes, the first of which failed
C10_Witness ==
    /\ pc = "done" /\ repeats = MaxRepeats /\ suspensions = MaxRepeats - 1
    /\ episodes[1] = "BuildFailed"

====
